---- MODULE Spec2Model ----
(***************************************************************************)
(* Appointment booking API (src/main.py): the /create admission handler,   *)
(* the /accept and /reject status handlers, the five GET queries, and the  *)
(* appointments table with its primary key on id and its unique constraint *)
(* on appointment_time.  Each handler runs in its own worker; a worker's   *)
(* steps are its database statements, so that the statements of            *)
(* concurrent requests interleave.  Spec serves writing requests           *)
(* concurrently, FaultSpec adds commits that fail, SerialSpec serves every *)
(* request, the queries included, one at a time.                           *)
(*                                                                         *)
(* Instants are minutes since midnight of day 0.  Candidates carry their   *)
(* appointment_time in UTC ("...Z", as in the schema's example), so the    *)
(* wall-clock fields .date(), .hour and .minute are those of the instant.  *)
(***************************************************************************)
EXTENDS Integers, FiniteSets

VARIABLES db, now, pc, req, current_ist_time, appointment, appointments, result

vars == <<db, now, pc, req, current_ist_time, appointment, appointments, result>>

-----------------------------------------------------------------------------
(* Bounds of the model *)

\* number of clock advances explored
MaxTicks == 1

-----------------------------------------------------------------------------
(* datetime arithmetic *)

\* datetime.date(), .hour, .minute
DateOf(t) == t \div (24 * 60)
HourOf(t) == (t % (24 * 60)) \div 60
MinuteOf(t) == t % 60

\* the datetime of day d at h:m
At(d, h, m) == (d * 24 + h) * 60 + m

\* ist_offset = timedelta(hours=5, minutes=30)
ist_offset == 5 * 60 + 30

\* latest_allowed_date = today_ist_date + timedelta(days=2)
WindowDays == 2

\* 9 <= appointment_dt_ist.hour < 19
OpenHour == 9
CloseHour == 19

-----------------------------------------------------------------------------
(* Inputs *)

\* request handlers served at the same time
Workers == {"w1", "w2"}

Ids == {"1", "2"}
Names == {"Jane", "John"}
Emails == {"jane@example.com"}
Statuses == {"pending", "approved", "rejected"}

\* a request body that carries no status
Omitted == "omitted"

\* the UTC clock when the service starts: day 3, 10:00, and its advance per
\* tick: 9 hours, so that the first tick (19:00 UTC) carries the shifted
\* clock past midnight while the UTC date is still day 3
StartClock == At(3, 10, 0)
TickStep == 9 * 60

\* requested appointment times: on the hour at the edges of business hours
\* and just outside them, and off the hour.  With the clock at StartClock today is day 3,
\* after the first tick it is day 4: day 3 is today or today-1, day 4 is
\* today+1 or today, day 6 is today+3 or today+2.
RequestTimes ==
    {At(3, 9, 0), At(4, 18, 0), At(6, 9, 0),
     At(3, 8, 0), At(3, 19, 0), At(6, 19, 0), At(4, 9, 30)}

\* the request bodies accepted by the Appoint schema
Bodies(times, statuses) ==
    [id : Ids, name : Names, email : Emails,
     appointment_time : times, status : statuses]

\* the bodies sent when requests are served one at a time: without a status,
\* which the schema fills with "pending", or with another status.
\* Each id is the id of one patient.
PatientOf(id) == IF id = "1" THEN "Jane" ELSE "John"
Candidates ==
    {b \in Bodies(RequestTimes, {Omitted, "approved", "rejected"}) :
        b.name = PatientOf(b.id)}

\* the bodies sent when requests are served concurrently: two slots
RaceTimes == {At(3, 9, 0), At(4, 18, 0)}
RaceCandidates ==
    [id : Ids, name : {"Jane"}, email : Emails,
     appointment_time : RaceTimes, status : {"pending", "approved"}]

\* the worker that serves the requests when they come one at a time
Serial == "w1"

None == [op |-> "none"]
NoTime == 0 - 1

-----------------------------------------------------------------------------
(* The appointments table *)

\* db.query(AppointmentDB).filter(AppointmentDB.id == id).first()
ById(store, id) == {a \in store : a.id = id}

\* db.query(AppointmentDB).filter(AppointmentDB.appointment_time == t).first()
ByTime(store, t) == {a \in store : a.appointment_time = t}

\* the table without the unique constraint on appointment_time
ConstraintsWithoutTimeUnique(store, a) == ById(store, a.id) = {}

\* the table without the primary key on id
ConstraintsWithoutPrimaryKey(store, a) == ByTime(store, a.appointment_time) = {}

\* primary key on id, unique constraint on appointment_time: what the
\* INSERT of row a checks at commit
ConstraintsAllow(store, a) ==
    /\ ById(store, a.id) = {}
    /\ ByTime(store, a.appointment_time) = {}

-----------------------------------------------------------------------------
(* create_appointment: the validation rules *)

\* the window without its lower end
InWindowNoLowerEnd(t, ist) == DateOf(t) <= DateOf(ist) + WindowDays

\* the window with its upper end excluded
InWindowOpenEnd(t, ist) ==
    /\ DateOf(ist) <= DateOf(t)
    /\ DateOf(t) < DateOf(ist) + WindowDays

\* today_ist_date <= appointment_date <= latest_allowed_date
InWindow(t, ist) ==
    /\ DateOf(ist) <= DateOf(t)
    /\ DateOf(t) <= DateOf(ist) + WindowDays

\* business hours with 19:00 included
InHoursClosedEnd(t) ==
    /\ OpenHour <= HourOf(t)
    /\ HourOf(t) <= CloseHour
    /\ MinuteOf(t) = 0

\* 9 <= hour < 19 and minute == 0
InHours(t) ==
    /\ OpenHour <= HourOf(t)
    /\ HourOf(t) < CloseHour
    /\ MinuteOf(t) = 0

\* the window check moved before the slot check
ValidateWindowFirst(store, c, ist) ==
    IF ~InWindow(c.appointment_time, ist) THEN "OutOfWindow"
    ELSE IF ByTime(store, c.appointment_time) # {} THEN "SlotTaken"
    ELSE IF ~InHours(c.appointment_time) THEN "OffHours"
    ELSE "ok"

\* the business-hours check moved before the window check
ValidateHoursFirst(store, c, ist) ==
    IF ByTime(store, c.appointment_time) # {} THEN "SlotTaken"
    ELSE IF ~InHours(c.appointment_time) THEN "OffHours"
    ELSE IF ~InWindow(c.appointment_time, ist) THEN "OutOfWindow"
    ELSE "ok"

\* the checks without the window check
ValidateNoWindow(store, c, ist) ==
    IF ByTime(store, c.appointment_time) # {} THEN "SlotTaken"
    ELSE IF ~InHours(c.appointment_time) THEN "OffHours"
    ELSE "ok"

\* the outcome of the checks that follow the id check, in source order
Validate(store, c, ist) ==
    IF ByTime(store, c.appointment_time) # {} THEN "SlotTaken"
    ELSE IF ~InWindow(c.appointment_time, ist) THEN "OutOfWindow"
    ELSE IF ~InHours(c.appointment_time) THEN "OffHours"
    ELSE "ok"

\* the status field of the Appoint schema: Field('pending', ...)
StatusOf(c) == IF c.status = Omitted THEN "pending" ELSE c.status

\* a row that takes "pending" whatever the caller supplied
NewRowAlwaysPending(c, ist) ==
    [id |-> c.id, name |-> c.name, email |-> c.email,
     appointment_time |-> c.appointment_time, status |-> "pending",
     created_at |-> ist]

\* AppointmentDB(id=..., ..., status=new_appoint.status, created_at=current_ist_time)
NewRow(c, ist) ==
    [id |-> c.id, name |-> c.name, email |-> c.email,
     appointment_time |-> c.appointment_time, status |-> StatusOf(c),
     created_at |-> ist]

-----------------------------------------------------------------------------
Init ==
    /\ db = {}
    /\ now = StartClock
    /\ pc = [w \in Workers |-> "idle"]
    /\ req = [w \in Workers |-> None]
    /\ current_ist_time = [w \in Workers |-> NoTime]
    /\ appointment = [w \in Workers |-> None]
    /\ appointments = [w \in Workers |-> {}]
    /\ result = [w \in Workers |-> "none"]

Free(w) == pc[w] \in {"idle", "done"}

\* the wall clock advances
Tick ==
    /\ now + TickStep <= StartClock + MaxTicks * TickStep
    /\ now' = now + TickStep
    /\ UNCHANGED <<db, pc, req, current_ist_time, appointment, appointments, result>>

\* POST /create arrives; the id check
CreateCheckId(w, c) ==
    /\ Free(w)
    /\ req' = [req EXCEPT ![w] = [op |-> "create", body |-> c]]
    /\ current_ist_time' = [current_ist_time EXCEPT ![w] = NoTime]
    /\ appointment' = [appointment EXCEPT ![w] = None]
    /\ IF ById(db, c.id) # {}
       THEN /\ pc' = [pc EXCEPT ![w] = "done"]
            /\ result' = [result EXCEPT ![w] = "DuplicateId"]
       ELSE /\ pc' = [pc EXCEPT ![w] = "create_check_time"]
            /\ result' = [result EXCEPT ![w] = "none"]
    /\ appointments' = [appointments EXCEPT ![w] = {}]
    /\ UNCHANGED <<db, now>>

\* create that adds the row to the table before it validates the time
CreateValidateAfterInsert(w) ==
    /\ pc[w] = "create_check_time"
    /\ LET ist == now + ist_offset
           v == Validate(db, req[w].body, ist)
       IN /\ current_ist_time' = [current_ist_time EXCEPT ![w] = ist]
          /\ IF v = "ok"
             THEN /\ pc' = [pc EXCEPT ![w] = "create_commit"]
                  /\ UNCHANGED <<result, db>>
             ELSE /\ pc' = [pc EXCEPT ![w] = "done"]
                  /\ result' = [result EXCEPT ![w] = v]
                  /\ db' = IF v = "SlotTaken" THEN db
                           ELSE db \cup {NewRow(req[w].body, ist)}
    /\ UNCHANGED <<now, req, appointment, appointments>>

\* the clock is read and shifted; the slot check, the window check and the
\* business-hours check
CreateValidate(w) ==
    /\ pc[w] = "create_check_time"
    /\ LET ist == now + ist_offset
           v == Validate(db, req[w].body, ist)
       IN /\ current_ist_time' = [current_ist_time EXCEPT ![w] = ist]
          /\ IF v = "ok"
             THEN /\ pc' = [pc EXCEPT ![w] = "create_commit"]
                  /\ UNCHANGED result
             ELSE /\ pc' = [pc EXCEPT ![w] = "done"]
                  /\ result' = [result EXCEPT ![w] = v]
    /\ UNCHANGED <<db, now, req, appointment, appointments>>

\* db.add, db.commit: the INSERT, refused by the table's constraints when
\* the id or the slot has been taken meanwhile
CreateCommit(w) ==
    /\ pc[w] = "create_commit"
    /\ LET row == NewRow(req[w].body, current_ist_time[w])
       IN IF ConstraintsAllow(db, row)
          THEN /\ db' = db \cup {row}
               /\ result' = [result EXCEPT ![w] = "Admitted"]
          ELSE /\ db' = db
               /\ result' = [result EXCEPT ![w] = "StoreFailure"]
    /\ pc' = [pc EXCEPT ![w] = "done"]
    /\ UNCHANGED <<now, req, current_ist_time, appointment, appointments>>

\* the UPDATE without its WHERE clause
FlushEveryRow(store, loaded, target) ==
    IF loaded.status = target
    THEN store
    ELSE {[a EXCEPT !.status = target] : a \in store}

\* UPDATE appointments SET status = target WHERE id = pk, which db.commit()
\* flushes only when the assignment changed the attribute as it was loaded
Flush(store, loaded, target) ==
    IF loaded.status = target
    THEN store
    ELSE {IF a.id = loaded.id THEN [a EXCEPT !.status = target] ELSE a : a \in store}

\* accept that inserts an approved row for an id it does not find
AcceptLookupUpserts(w, id) ==
    /\ Free(w)
    /\ req' = [req EXCEPT ![w] = [op |-> "accept", id |-> id]]
    /\ current_ist_time' = [current_ist_time EXCEPT ![w] = NoTime]
    /\ IF ById(db, id) # {}
       THEN /\ appointment' = [appointment EXCEPT ![w] = CHOOSE a \in ById(db, id) : TRUE]
            /\ pc' = [pc EXCEPT ![w] = "accept_commit"]
            /\ result' = [result EXCEPT ![w] = "none"]
            /\ db' = db
       ELSE /\ appointment' = [appointment EXCEPT ![w] = None]
            /\ pc' = [pc EXCEPT ![w] = "done"]
            /\ result' = [result EXCEPT ![w] = "NotFound"]
            /\ db' = db \cup {[id |-> id, name |-> "", email |-> "",
                                appointment_time |-> NoTime, status |-> "approved",
                                created_at |-> now]}
    /\ appointments' = [appointments EXCEPT ![w] = {}]
    /\ UNCHANGED now

\* PUT /accept/{id} arrives; the lookup by id
AcceptLookup(w, id) ==
    /\ Free(w)
    /\ req' = [req EXCEPT ![w] = [op |-> "accept", id |-> id]]
    /\ current_ist_time' = [current_ist_time EXCEPT ![w] = NoTime]
    /\ IF ById(db, id) # {}
       THEN /\ appointment' = [appointment EXCEPT ![w] = CHOOSE a \in ById(db, id) : TRUE]
            /\ pc' = [pc EXCEPT ![w] = "accept_commit"]
            /\ result' = [result EXCEPT ![w] = "none"]
       ELSE /\ appointment' = [appointment EXCEPT ![w] = None]
            /\ pc' = [pc EXCEPT ![w] = "done"]
            /\ result' = [result EXCEPT ![w] = "NotFound"]
    /\ appointments' = [appointments EXCEPT ![w] = {}]
    /\ UNCHANGED <<db, now>>

\* accept that refuses an appointment that is no longer pending
AcceptCommitGuarded(w) ==
    /\ pc[w] = "accept_commit"
    /\ IF appointment[w].status = "pending"
       THEN /\ db' = Flush(db, appointment[w], "approved")
            /\ result' = [result EXCEPT ![w] = "Accepted"]
       ELSE /\ db' = db
            /\ result' = [result EXCEPT ![w] = "Conflict"]
    /\ pc' = [pc EXCEPT ![w] = "done"]
    /\ UNCHANGED <<now, req, current_ist_time, appointment, appointments>>

\* appointment.status = 'approved'; db.commit()
AcceptCommit(w) ==
    /\ pc[w] = "accept_commit"
    /\ db' = Flush(db, appointment[w], "approved")
    /\ pc' = [pc EXCEPT ![w] = "done"]
    /\ result' = [result EXCEPT ![w] = "Accepted"]
    /\ UNCHANGED <<now, req, current_ist_time, appointment, appointments>>

\* PUT /reject/{id} arrives; the lookup by id
RejectLookup(w, id) ==
    /\ Free(w)
    /\ req' = [req EXCEPT ![w] = [op |-> "reject", id |-> id]]
    /\ current_ist_time' = [current_ist_time EXCEPT ![w] = NoTime]
    /\ IF ById(db, id) # {}
       THEN /\ appointment' = [appointment EXCEPT ![w] = CHOOSE a \in ById(db, id) : TRUE]
            /\ pc' = [pc EXCEPT ![w] = "reject_commit"]
            /\ result' = [result EXCEPT ![w] = "none"]
       ELSE /\ appointment' = [appointment EXCEPT ![w] = None]
            /\ pc' = [pc EXCEPT ![w] = "done"]
            /\ result' = [result EXCEPT ![w] = "NotFound"]
    /\ appointments' = [appointments EXCEPT ![w] = {}]
    /\ UNCHANGED <<db, now>>

\* reject that deletes the appointment
RejectCommitDeletes(w) ==
    /\ pc[w] = "reject_commit"
    /\ db' = {a \in db : a.id # appointment[w].id}
    /\ pc' = [pc EXCEPT ![w] = "done"]
    /\ result' = [result EXCEPT ![w] = "Rejected"]
    /\ UNCHANGED <<now, req, current_ist_time, appointment, appointments>>

\* reject that puts the appointment back to pending
RejectCommitResets(w) ==
    /\ pc[w] = "reject_commit"
    /\ db' = Flush(db, appointment[w], "pending")
    /\ pc' = [pc EXCEPT ![w] = "done"]
    /\ result' = [result EXCEPT ![w] = "Rejected"]
    /\ UNCHANGED <<now, req, current_ist_time, appointment, appointments>>

\* appointment.status = 'rejected'; db.commit()
RejectCommit(w) ==
    /\ pc[w] = "reject_commit"
    /\ db' = Flush(db, appointment[w], "rejected")
    /\ pc' = [pc EXCEPT ![w] = "done"]
    /\ result' = [result EXCEPT ![w] = "Rejected"]
    /\ UNCHANGED <<now, req, current_ist_time, appointment, appointments>>

\* db.query(AppointmentDB).all()
All(store) == store

\* the approved listing that filters on "not pending"
ApprovedOfNotPending(store) == {a \in store : a.status # "pending"}

\* db.query(AppointmentDB).filter(AppointmentDB.status == ...).all()
PendingOf(store) == {a \in store : a.status = "pending"}
ApprovedOf(store) == {a \in store : a.status = "approved"}
RejectedOf(store) == {a \in store : a.status = "rejected"}

\* a listing query answered by worker w with rows
Listed(w, op, rows) ==
    /\ Free(w)
    /\ req' = [req EXCEPT ![w] = [op |-> op]]
    /\ appointments' = [appointments EXCEPT ![w] = rows]
    /\ appointment' = [appointment EXCEPT ![w] = None]
    /\ current_ist_time' = [current_ist_time EXCEPT ![w] = NoTime]
    /\ pc' = [pc EXCEPT ![w] = "done"]
    /\ result' = [result EXCEPT ![w] = "Listed"]
    /\ UNCHANGED <<db, now>>

\* GET /view
view(w) == Listed(w, "view", All(db))

\* GET /detail/{id}
view_appointment(w, id) ==
    /\ Free(w)
    /\ req' = [req EXCEPT ![w] = [op |-> "detail", id |-> id]]
    /\ appointments' = [appointments EXCEPT ![w] = {}]
    /\ current_ist_time' = [current_ist_time EXCEPT ![w] = NoTime]
    /\ pc' = [pc EXCEPT ![w] = "done"]
    /\ IF ById(db, id) # {}
       THEN /\ appointment' = [appointment EXCEPT ![w] = CHOOSE a \in ById(db, id) : TRUE]
            /\ result' = [result EXCEPT ![w] = "Found"]
       ELSE /\ appointment' = [appointment EXCEPT ![w] = None]
            /\ result' = [result EXCEPT ![w] = "NotFound"]
    /\ UNCHANGED <<db, now>>

\* GET /pending
get_pending_appointments(w) == Listed(w, "pending", PendingOf(db))

\* GET /approved
get_approved_appointments(w) == Listed(w, "approved", ApprovedOf(db))

\* GET /rejected
get_rejected_appointments(w) == Listed(w, "rejected", RejectedOf(db))

\* requests served concurrently
Next ==
    \/ Tick
    \/ \E w \in Workers : \E c \in RaceCandidates : CreateCheckId(w, c)
    \/ \E w \in Workers : CreateValidate(w)
    \/ \E w \in Workers : CreateCommit(w)
    \/ \E w \in Workers : \E id \in Ids : AcceptLookup(w, id)
    \/ \E w \in Workers : AcceptCommit(w)
    \/ \E w \in Workers : \E id \in Ids : RejectLookup(w, id)
    \/ \E w \in Workers : RejectCommit(w)

Spec == Init /\ [][Next]_vars

\* a failed commit that leaves the row behind
CreateCommitFailsLeavingRow(w) ==
    /\ pc[w] = "create_commit"
    /\ db' = db \cup {NewRow(req[w].body, current_ist_time[w])}
    /\ pc' = [pc EXCEPT ![w] = "done"]
    /\ result' = [result EXCEPT ![w] = "StoreFailure"]
    /\ UNCHANGED <<now, req, current_ist_time, appointment, appointments>>

\* db.commit() raises SQLAlchemyError (the store is unreachable):
\* db.rollback() and HTTP 500
CreateCommitFails(w) ==
    /\ pc[w] = "create_commit"
    /\ db' = db
    /\ pc' = [pc EXCEPT ![w] = "done"]
    /\ result' = [result EXCEPT ![w] = "StoreFailure"]
    /\ UNCHANGED <<now, req, current_ist_time, appointment, appointments>>

\* db.commit() of accept raises SQLAlchemyError: db.rollback() and HTTP 500
AcceptCommitFails(w) ==
    /\ pc[w] = "accept_commit"
    /\ db' = db
    /\ pc' = [pc EXCEPT ![w] = "done"]
    /\ result' = [result EXCEPT ![w] = "StoreFailure"]
    /\ UNCHANGED <<now, req, current_ist_time, appointment, appointments>>

\* db.commit() of reject raises SQLAlchemyError: db.rollback() and HTTP 500
RejectCommitFails(w) ==
    /\ pc[w] = "reject_commit"
    /\ db' = db
    /\ pc' = [pc EXCEPT ![w] = "done"]
    /\ result' = [result EXCEPT ![w] = "StoreFailure"]
    /\ UNCHANGED <<now, req, current_ist_time, appointment, appointments>>

\* requests served concurrently by a store whose commits may fail
FaultNext ==
    \/ Next
    \/ \E w \in Workers : CreateCommitFails(w)
    \/ \E w \in Workers : AcceptCommitFails(w)
    \/ \E w \in Workers : RejectCommitFails(w)

FaultSpec == Init /\ [][FaultNext]_vars

\* requests served one at a time, each to completion
SerialNext ==
    \/ Tick
    \/ \E c \in Candidates : CreateCheckId(Serial, c)
    \/ CreateValidate(Serial)
    \/ CreateCommit(Serial)
    \/ \E id \in Ids : AcceptLookup(Serial, id)
    \/ AcceptCommit(Serial)
    \/ \E id \in Ids : RejectLookup(Serial, id)
    \/ RejectCommit(Serial)
    \/ view(Serial)
    \/ \E id \in Ids : view_appointment(Serial, id)
    \/ get_pending_appointments(Serial)
    \/ get_approved_appointments(Serial)
    \/ get_rejected_appointments(Serial)

SerialSpec == Init /\ [][SerialNext]_vars

-----------------------------------------------------------------------------
(* Properties *)

IsCreate(w) == req[w].op = "create"
Done(w) == pc[w] = "done"

\* the row a create request of worker w inserts
RowOf(w) == NewRow(req[w].body, current_ist_time[w])

\* the table as it was before the finished create request of worker w, when
\* no other request was served meanwhile
Before(w) == IF result[w] = "Admitted" THEN db \ {RowOf(w)} ELSE db

\* C1: no two stored appointments have the same appointment_time, also when
\* create requests for the same appointment_time interleave their checks and
\* their inserts: at most one of them is admitted.
C1_UniqueTime ==
    \A a \in db : \A b \in db : a.appointment_time = b.appointment_time => a = b

\* two create requests for one slot both passed the slot check; one was
\* admitted and the other lost at commit
C1_Witness ==
    \E v \in Workers : \E w \in Workers :
        /\ Done(v) /\ IsCreate(v) /\ result[v] = "Admitted"
        /\ Done(w) /\ IsCreate(w) /\ result[w] = "StoreFailure"
        /\ req[v].body.appointment_time = req[w].body.appointment_time
        /\ req[v].body.id # req[w].body.id

\* C2: no two stored appointments share an id, also when create requests
\* with the same id and different appointment_times run concurrently.
C2_UniqueId ==
    \A a \in db : \A b \in db : a.id = b.id => a = b

\* two create requests with one id and different slots both passed the id
\* check; one was admitted and the other lost at commit
C2_Witness ==
    \E v \in Workers : \E w \in Workers :
        /\ Done(v) /\ IsCreate(v) /\ result[v] = "Admitted"
        /\ Done(w) /\ IsCreate(w) /\ result[w] = "StoreFailure"
        /\ req[v].body.id = req[w].body.id
        /\ req[v].body.appointment_time # req[w].body.appointment_time

\* the first admission rule, in the order DuplicateId, SlotTaken, OutOfWindow,
\* OffHours, that candidate c violates against table store and shifted clock
\* ist; "Admitted" when it violates none
FirstViolated(store, c, ist) ==
    IF \E a \in store : a.id = c.id THEN "DuplicateId"
    ELSE IF \E a \in store : a.appointment_time = c.appointment_time THEN "SlotTaken"
    ELSE IF DateOf(c.appointment_time) < DateOf(ist)
            \/ DateOf(c.appointment_time) > DateOf(ist) + 2 THEN "OutOfWindow"
    ELSE IF HourOf(c.appointment_time) < 9 \/ HourOf(c.appointment_time) >= 19
            \/ MinuteOf(c.appointment_time) # 0 THEN "OffHours"
    ELSE "Admitted"

\* C3: the answer to a create request is the first rule it violates in the
\* order DuplicateId, SlotTaken, OutOfWindow, OffHours (and admission when it
\* violates none), for every candidate and every table.
C3_Precedence ==
    Done(Serial) /\ IsCreate(Serial) =>
        result[Serial] = FirstViolated(Before(Serial), req[Serial].body,
                                       current_ist_time[Serial])

\* a request that violated three rules at once (its id is stored, its slot
\* is taken and its date is before today) was answered DuplicateId
C3_Witness ==
    /\ Done(Serial) /\ IsCreate(Serial) /\ result[Serial] = "DuplicateId"
    /\ ByTime(db, req[Serial].body.appointment_time) # {}
    /\ DateOf(req[Serial].body.appointment_time) < DateOf(now + ist_offset)

\* worker w answers a request in this step
Responds(w) ==
    /\ pc'[w] = "done"
    /\ <<pc[w], req[w], result[w]>> # <<pc'[w], req'[w], result'[w]>>

\* the id of the finished create request of w was not stored, and its slot
\* was free, before the request
FreshAndFree(w) ==
    /\ \A a \in Before(w) : a.id # req[w].body.id
    /\ \A a \in Before(w) : a.appointment_time # req[w].body.appointment_time

\* the requested date of w's create request, in days after the today of the
\* shifted clock the request read
DaysAhead(w) == DateOf(req[w].body.appointment_time) - DateOf(current_ist_time[w])

\* the requested time of day of w's create request
Hour(w) == HourOf(req[w].body.appointment_time)
Minute(w) == MinuteOf(req[w].body.appointment_time)

\* C4 as stated: a create request whose requested date is before today, or
\* more than 2 days after today, is always answered OutOfWindow.  Today is
\* the date of the shifted clock the request read, or of the shifted clock
\* at the answer when the request was answered before reading it.
C4_Original ==
    [][\A w \in Workers :
          Responds(w) /\ req'[w].op = "create" =>
              LET ist == IF current_ist_time'[w] # NoTime
                         THEN current_ist_time'[w] ELSE now + ist_offset
                  d == DateOf(req'[w].body.appointment_time)
              IN d < DateOf(ist) \/ d > DateOf(ist) + 2 => result'[w] = "OutOfWindow"]_vars

\* C4 as amended: a create request whose requested date is before today, or
\* more than 2 days after today, is answered OutOfWindow when its id is not
\* stored and its slot is free.
C4_OutOfWindow ==
    \A w \in Workers :
        Done(w) /\ IsCreate(w) /\ FreshAndFree(w)
                /\ (DaysAhead(w) < 0 \/ DaysAhead(w) > 2)
            => result[w] = "OutOfWindow"

\* a request for a date before today was answered OutOfWindow
C4_Witness ==
    \E w \in Workers :
        /\ Done(w) /\ IsCreate(w) /\ FreshAndFree(w)
        /\ current_ist_time[w] # NoTime /\ DaysAhead(w) < 0
        /\ result[w] = "OutOfWindow"

\* C5, first half: a create request at hour h with 9 <= h < 19 and minute 0
\* succeeds when its id is fresh, its slot is free and its date is inside
\* the window.
C5_Admits(w) ==
    Done(w) /\ IsCreate(w) /\ FreshAndFree(w)
            /\ 9 <= Hour(w) /\ Hour(w) < 19 /\ Minute(w) = 0
            /\ 0 <= DaysAhead(w) /\ DaysAhead(w) <= 2
        => result[w] = "Admitted"

\* 19:00 exactly, 8:00, or any non-zero minute
C5_OffHourTime(w) ==
    \/ Hour(w) = 19 /\ Minute(w) = 0
    \/ Hour(w) = 8 /\ Minute(w) = 0
    \/ Minute(w) # 0

\* C5 as stated: ... and a create request at 19:00 exactly, at 8:00, or with
\* a non-zero minute is always answered OffHours.
C5_Original ==
    \A w \in Workers :
        /\ C5_Admits(w)
        /\ Done(w) /\ IsCreate(w) /\ C5_OffHourTime(w) => result[w] = "OffHours"

\* C5 as amended: ... and a create request at 19:00 exactly, at 8:00, or with
\* a non-zero minute is answered OffHours when its id is fresh, its slot is
\* free and its date is inside the window.
C5_BusinessHours ==
    \A w \in Workers :
        /\ C5_Admits(w)
        /\ Done(w) /\ IsCreate(w) /\ C5_OffHourTime(w) /\ FreshAndFree(w)
                   /\ 0 <= DaysAhead(w) /\ DaysAhead(w) <= 2
               => result[w] = "OffHours"

\* a request at 19:00 inside the window was answered OffHours while an
\* appointment at 18:00 is stored
C5_Witness ==
    \E w \in Workers :
        /\ Done(w) /\ IsCreate(w) /\ result[w] = "OffHours"
        /\ Hour(w) = 19 /\ Minute(w) = 0
        /\ \E a \in db : HourOf(a.appointment_time) = 18

\* C6 as stated: a create request at 19:00 on the hour (fresh id, free slot)
\* is answered OffHours whether its date is inside or outside the window.
C6_Original ==
    \A w \in Workers :
        Done(w) /\ IsCreate(w) /\ FreshAndFree(w) /\ Hour(w) = 19 /\ Minute(w) = 0
            => result[w] = "OffHours"

\* C6 as amended: a create request at 19:00 on the hour (fresh id, free
\* slot) is answered OffHours when its date is inside the window and
\* OutOfWindow when it is outside.
C6_NineteenHundred ==
    \A w \in Workers :
        Done(w) /\ IsCreate(w) /\ FreshAndFree(w) /\ Hour(w) = 19 /\ Minute(w) = 0
            => result[w] = IF 0 <= DaysAhead(w) /\ DaysAhead(w) <= 2
                           THEN "OffHours" ELSE "OutOfWindow"

\* a request at 19:00 on a date after the window was answered OutOfWindow
C6_Witness ==
    \E w \in Workers :
        /\ Done(w) /\ IsCreate(w) /\ FreshAndFree(w)
        /\ Hour(w) = 19 /\ Minute(w) = 0 /\ DaysAhead(w) > 2
        /\ result[w] = "OutOfWindow"

\* C7: with a fresh id, a free slot and a valid hour, a create request is
\* admitted for today, today+1 and today+2 and answered OutOfWindow for
\* today-1 and today+3; when the shift has carried the clock past midnight,
\* the date that is still current in UTC is outside the window.
C7_Window ==
    \A w \in Workers :
        Done(w) /\ IsCreate(w) /\ FreshAndFree(w)
                /\ 9 <= Hour(w) /\ Hour(w) < 19 /\ Minute(w) = 0
            => /\ DaysAhead(w) \in {0, 1, 2} => result[w] = "Admitted"
               /\ DaysAhead(w) \in {0 - 1, 3} => result[w] = "OutOfWindow"
               /\ DateOf(current_ist_time[w] - ist_offset) < DateOf(current_ist_time[w])
                     /\ DateOf(req[w].body.appointment_time)
                           = DateOf(current_ist_time[w] - ist_offset)
                  => result[w] = "OutOfWindow"

\* the clock is past midnight only after the shift; a request for the date
\* current in UTC was answered OutOfWindow, and an appointment admitted for
\* today+2 is stored
C7_Witness ==
    \E w \in Workers :
        /\ Done(w) /\ IsCreate(w) /\ FreshAndFree(w)
        /\ 9 <= Hour(w) /\ Hour(w) < 19 /\ Minute(w) = 0
        /\ current_ist_time[w] = now + ist_offset
        /\ DateOf(now) < DateOf(now + ist_offset)
        /\ DateOf(req[w].body.appointment_time) = DateOf(now)
        /\ result[w] = "OutOfWindow"
        /\ \E a \in db : DateOf(a.appointment_time) = DateOf(a.created_at) + 2

\* a request arrives at worker w in this step
Arrives(w) ==
    /\ Free(w)
    /\ <<pc[w], req[w], result[w]>> # <<pc'[w], req'[w], result'[w]>>

IsTransition(r) == r.op \in {"accept", "reject"}

\* C8: an accept or reject request for an id that is not stored is answered
\* NotFound and leaves the table as it was.
C8_NotFound ==
    [][\A w \in Workers :
          Arrives(w) /\ IsTransition(req'[w]) /\ (\A a \in db : a.id # req'[w].id)
              => /\ pc'[w] = "done"
                 /\ result'[w] = "NotFound"
                 /\ db' = db]_vars

\* an accept or reject for an id that is not stored was answered NotFound
\* while another appointment is stored
C8_Witness ==
    \E w \in Workers :
        /\ Done(w) /\ IsTransition(req[w]) /\ result[w] = "NotFound"
        /\ \A a \in db : a.id # req[w].id
        /\ db # {}

\* the appointment with this id is stored with this status
HasStatus(store, id, st) == \E a \in store : a.id = id /\ a.status = st

\* C9: accept on a stored appointment succeeds and leaves it approved; on
\* an appointment that is already approved, as after a first accept, it
\* succeeds again and leaves the table as it was.
C9_AcceptIdempotent ==
    [][\A w \in Workers :
          /\ Arrives(w) /\ req'[w].op = "accept" /\ (\E a \in db : a.id = req'[w].id)
                => pc'[w] = "accept_commit"
          /\ pc[w] = "accept_commit" /\ pc'[w] # "accept_commit"
                => /\ pc'[w] = "done"
                   /\ result'[w] = "Accepted"
                   /\ HasStatus(db', req[w].id, "approved")
                   /\ HasStatus(db, req[w].id, "approved") => db' = db]_vars

\* an accept of an appointment that was already approved when it was looked
\* up has succeeded, and the appointment is approved
C9_Witness ==
    \E w \in Workers :
        /\ Done(w) /\ req[w].op = "accept" /\ result[w] = "Accepted"
        /\ appointment[w].status = "approved"
        /\ HasStatus(db, req[w].id, "approved")

\* C10 as stated: when the status of a stored appointment changes, it was
\* pending and becomes approved or rejected.
C10_Original ==
    [][\A a \in db : \A b \in db' :
          a.id = b.id /\ a.status # b.status
              => a.status = "pending" /\ b.status \in {"approved", "rejected"}]_vars

\* C10 as amended: when the status of a stored appointment changes, it
\* becomes approved, by the commit of an accept of its id, or rejected, by
\* the commit of a reject of its id, whatever it was before.
C10_Transitions ==
    [][\A a \in db : \A b \in db' :
          a.id = b.id /\ a.status # b.status
              => \E w \in Workers :
                    /\ pc[w] \in {"accept_commit", "reject_commit"}
                    /\ pc'[w] = "done"
                    /\ req[w].id = a.id
                    /\ b.status = IF pc[w] = "accept_commit" THEN "approved" ELSE "rejected"]_vars

\* a reject has overwritten approved with rejected
C10_Witness ==
    \E w \in Workers :
        /\ Done(w) /\ req[w].op = "reject" /\ result[w] = "Rejected"
        /\ appointment[w].status = "approved"
        /\ HasStatus(db, req[w].id, "rejected")

\* C11: a create request that passed both checks and whose INSERT is refused
\* at commit, because a concurrent create has taken its id or its slot, is
\* answered DuplicateId (its id is stored) or SlotTaken (its slot is taken),
\* as the checks would have answered.
C11_CommitRejection ==
    [][\A w \in Workers :
          /\ pc[w] = "create_commit" /\ pc'[w] = "done"
          /\ \E a \in db : \/ a.id = req[w].body.id
                            \/ a.appointment_time = req[w].body.appointment_time
          => result'[w] = IF \E a \in db : a.id = req[w].body.id
                          THEN "DuplicateId" ELSE "SlotTaken"]_vars

\* C12: a create, accept or reject request whose commit fails leaves the
\* table as it was before the commit: no row is left behind and no stored
\* status is changed.
C12_FailedCommit ==
    [][\A w \in Workers :
          /\ pc[w] \in {"create_commit", "accept_commit", "reject_commit"}
          /\ pc'[w] = "done" /\ result'[w] = "StoreFailure"
          => db' = db]_vars

\* the commit of a create has failed and its id is not stored; the commit
\* of an accept of a pending appointment has failed and it is still pending
C12_Witness ==
    \E v \in Workers : \E w \in Workers :
        /\ Done(v) /\ IsCreate(v) /\ result[v] = "StoreFailure"
        /\ \A a \in db : a.id # req[v].body.id
        /\ Done(w) /\ req[w].op = "accept" /\ result[w] = "StoreFailure"
        /\ appointment[w].status = "pending"
        /\ HasStatus(db, req[w].id, "pending")

\* worker w takes a step of a create request
CreateStep(w) ==
    \/ Arrives(w) /\ req'[w].op = "create"
    \/ pc[w] \in {"create_check_time", "create_commit"} /\ pc'[w] # pc[w]

Rejections == {"DuplicateId", "SlotTaken", "OutOfWindow", "OffHours"}

\* C13: no step of a create request changes the table, except the insert
\* of its row by the commit of an admitted request; so the table after a
\* rejection is the table before the request.
C13_RejectionNoSideEffect ==
    [][\A w \in Workers :
          CreateStep(w) =>
              /\ result'[w] \in Rejections => db' = db
              /\ \/ db' = db
                 \/ /\ pc[w] = "create_commit" /\ result'[w] = "Admitted"
                    /\ db' = db \cup {[id |-> req[w].body.id,
                                        name |-> req[w].body.name,
                                        email |-> req[w].body.email,
                                        appointment_time |-> req[w].body.appointment_time,
                                        status |-> IF req[w].body.status = Omitted
                                                   THEN "pending" ELSE req[w].body.status,
                                        created_at |-> current_ist_time[w]]}]_vars

\* a create request was rejected for its hour while the table holds an
\* appointment, and its id is not stored
C13_Witness ==
    \E w \in Workers :
        /\ Done(w) /\ IsCreate(w) /\ result[w] = "OffHours"
        /\ db # {}
        /\ \A a \in db : a.id # req[w].body.id

\* C14: an admitted appointment stays in the table through every later
\* create, accept, reject and query, with the id, name, email,
\* appointment_time and created_at of its admission; only its status
\* changes.
C14_Persistence ==
    [][\A a \in db : \E b \in db' :
          /\ b.id = a.id
          /\ b.name = a.name
          /\ b.email = a.email
          /\ b.appointment_time = a.appointment_time
          /\ b.created_at = a.created_at]_vars

\* an appointment has been rejected and is stored as it was looked up,
\* but for its status; the other appointment is stored too
C14_Witness ==
    \E w \in Workers :
        /\ Done(w) /\ req[w].op = "reject" /\ result[w] = "Rejected"
        /\ appointment[w].status # "rejected"
        /\ [appointment[w] EXCEPT !.status = "rejected"] \in db
        /\ \E a \in db : a.id # req[w].id

\* the table with the status of the appointment id set to st and nothing
\* else changed
WithStatus(store, id, st) ==
    {IF a.id = id
     THEN [id |-> a.id, name |-> a.name, email |-> a.email,
           appointment_time |-> a.appointment_time, status |-> st,
           created_at |-> a.created_at]
     ELSE a : a \in store}

\* C15: an accept (reject) of a stored id succeeds and sets its status to
\* approved (rejected) whatever the status was, and changes no other field
\* and no other appointment.
C15_Overwrite ==
    [][\A w \in Workers :
          /\ Arrives(w) /\ IsTransition(req'[w]) /\ (\E a \in db : a.id = req'[w].id)
                => /\ pc'[w] = IF req'[w].op = "accept"
                               THEN "accept_commit" ELSE "reject_commit"
                   /\ db' = db
          /\ pc[w] = "accept_commit" /\ pc'[w] # pc[w]
                => /\ pc'[w] = "done" /\ result'[w] = "Accepted"
                   /\ db' = WithStatus(db, req[w].id, "approved")
          /\ pc[w] = "reject_commit" /\ pc'[w] # pc[w]
                => /\ pc'[w] = "done" /\ result'[w] = "Rejected"
                   /\ db' = WithStatus(db, req[w].id, "rejected")]_vars

\* an accept has overwritten rejected with approved while another
\* appointment is stored
C15_Witness ==
    \E w \in Workers :
        /\ Done(w) /\ req[w].op = "accept" /\ result[w] = "Accepted"
        /\ appointment[w].status = "rejected"
        /\ HasStatus(db, req[w].id, "approved")
        /\ \E a \in db : a.id # req[w].id

\* the record the spec describes for the create request of worker w
Admission(w) ==
    [id |-> req[w].body.id, name |-> req[w].body.name, email |-> req[w].body.email,
     appointment_time |-> req[w].body.appointment_time,
     status |-> IF req[w].body.status = Omitted THEN "pending" ELSE req[w].body.status,
     created_at |-> current_ist_time[w]]

\* C16: the clock a create request reads is UTC now shifted by +5:30; an
\* admission stores the candidate's id, name, email and appointment_time,
\* the caller's status or pending when there is none, and that clock as
\* created_at; admitted without a status, the appointment is in the pending
\* listing.
C16_StoredRecord ==
    [][\A w \in Workers :
          /\ current_ist_time'[w] # current_ist_time[w] /\ current_ist_time'[w] # NoTime
                => current_ist_time'[w] = now + (5 * 60 + 30)
          /\ pc[w] = "create_commit" /\ pc'[w] = "done" /\ result'[w] = "Admitted"
                => /\ Admission(w) \in db'
                   /\ \A a \in db' : a.id = req[w].body.id => a = Admission(w)
                   /\ req[w].body.status = Omitted => Admission(w) \in PendingOf(db')]_vars

\* a create request without a status was admitted and its record is in the
\* pending listing; an appointment stored as approved is there too
C16_Witness ==
    \E w \in Workers :
        /\ Done(w) /\ IsCreate(w) /\ result[w] = "Admitted"
        /\ req[w].body.status = Omitted
        /\ Admission(w) \in PendingOf(db)
        /\ \E a \in db : a.id # req[w].body.id /\ a.status = "approved"

\* the three status listings of a table partition its list-all result, and
\* each appointment is in the listing of its status
Projections(store) ==
    /\ PendingOf(store) \cap ApprovedOf(store) = {}
    /\ PendingOf(store) \cap RejectedOf(store) = {}
    /\ ApprovedOf(store) \cap RejectedOf(store) = {}
    /\ PendingOf(store) \cup ApprovedOf(store) \cup RejectedOf(store) = All(store)
    /\ All(store) = store
    /\ \A a \in store :
          /\ a \in PendingOf(store) <=> a.status = "pending"
          /\ a \in ApprovedOf(store) <=> a.status = "approved"
          /\ a \in RejectedOf(store) <=> a.status = "rejected"

Queries == {"view", "detail", "pending", "approved", "rejected"}

\* C17: in every state the pending, approved and rejected listings are
\* pairwise disjoint, their union is the list-all result, and each
\* appointment is in the listing of its status; a query answers with that
\* projection of the table (get-by-id with the record, or NotFound) and
\* does not change the table.
C17_Queries ==
    [][/\ Projections(db')
       /\ \A w \in Workers :
             Arrives(w) /\ req'[w].op \in Queries =>
                 /\ db' = db
                 /\ pc'[w] = "done"
                 /\ req'[w].op = "view" => appointments'[w] = db
                 /\ req'[w].op = "pending"
                       => appointments'[w] = {a \in db : a.status = "pending"}
                 /\ req'[w].op = "approved"
                       => appointments'[w] = {a \in db : a.status = "approved"}
                 /\ req'[w].op = "rejected"
                       => appointments'[w] = {a \in db : a.status = "rejected"}
                 /\ req'[w].op = "detail"
                       => IF \E a \in db : a.id = req'[w].id
                          THEN /\ result'[w] = "Found"
                               /\ appointment'[w] \in db
                               /\ appointment'[w].id = req'[w].id
                          ELSE result'[w] = "NotFound"]_vars

\* the approved listing was answered with an appointment that an accept
\* could have put there, and the pending listing holds the other
\* appointment and not this one
C17_Witness ==
    \E w \in Workers :
        /\ Done(w) /\ req[w].op = "approved" /\ result[w] = "Listed"
        /\ appointments[w] # {}
        /\ appointments[w] = ApprovedOf(db)
        /\ PendingOf(db) # {}
        /\ appointments[w] \cap PendingOf(db) = {}

\* C18: every stored appointment satisfies the admission rules as they
\* were at its creation, whatever transitions it went through and however
\* far the clock has moved: hour in 9..18, minute 0, and date between the
\* date of created_at and two days after it.
C18_AdmissionRulesKept ==
    \A a \in db :
        /\ 9 <= HourOf(a.appointment_time) /\ HourOf(a.appointment_time) <= 18
        /\ MinuteOf(a.appointment_time) = 0
        /\ DateOf(a.created_at) <= DateOf(a.appointment_time)
        /\ DateOf(a.appointment_time) <= DateOf(a.created_at) + 2

\* an appointment whose date is already before today was accepted from
\* pending and is stored approved
C18_Witness ==
    \E w \in Workers : \E a \in db :
        /\ Done(w) /\ req[w].op = "accept" /\ result[w] = "Accepted"
        /\ appointment[w].status = "pending"
        /\ a.id = req[w].id /\ a.status = "approved"
        /\ DateOf(a.appointment_time) < DateOf(now + ist_offset)

\* the status an accept or a reject writes
TargetOf(r) == IF r.op = "accept" THEN "approved" ELSE "rejected"

\* C19: when accepts and rejects of one id interleave, each of them
\* completes, and after each commit the appointment has the status of the
\* request that committed, approved or rejected, so that the final status
\* is that of the request that committed last; no other field and no other
\* appointment is changed.
C19_LastCommitWins ==
    [][\A w \in Workers :
          pc[w] \in {"accept_commit", "reject_commit"} /\ pc'[w] # pc[w]
              => /\ pc'[w] = "done"
                 /\ result'[w] \in {"Accepted", "Rejected"}
                 /\ \A b \in db' : b.id = req[w].id => b.status = TargetOf(req[w])
                 /\ \A a \in db : \E b \in db' :
                       /\ [b EXCEPT !.status = a.status] = a
                       /\ b.id # req[w].id => b = a]_vars

====
